---- MODULE Spec2Model ----
(***************************************************************************)
(* Model of tiny-rusty-raytracer's core (src/src/lib.rs): the Vector3      *)
(* algebra, Sphere::ray_intersect, scene_intersect and cast_ray.           *)
(*                                                                         *)
(* Numbers.  The program computes in f64.  The model computes on the grid  *)
(* of integers: every input is an integer (exactly representable in f64),  *)
(* +, - and * are exact on them, and the two operations that leave the     *)
(* grid, sqrt and /, round their exact result to the nearest grid value    *)
(* (ties to even), as IEEE-754 rounds to the nearest representable value.  *)
(* Division by zero yields NaN or +-Inf as in IEEE-754.  Colour channels   *)
(* are never computed with in lib.rs; they are carried in tenths, so the   *)
(* background colour (0.2, 0.7, 0.8) is the vector (2, 7, 8).              *)
(***************************************************************************)
EXTENDS Integers, Sequences, FiniteSets, TLC

VARIABLES
    \* ---- cast_ray / scene_intersect -----------------------------------
    orig,          \* ray origin (argument)
    dir,           \* ray direction (argument), a unit vector
    spheres,       \* the scene: a sequence of Sphere (argument)
    entry,         \* which public function was called
    pc,            \* position: "idle", "loop", "cast", "done"
    i,             \* position of the for loop of scene_intersect (1-based)
    spheres_dist,  \* local of scene_intersect
    dist_i,        \* local of the loop body, after ray_intersect
    isect,         \* what ray_intersect returned in the last iteration
    hit,           \* out-parameter (cast_ray's point)
    n,             \* out-parameter
    material,      \* out-parameter
    pre,           \* hit, n, material as they were when scene_intersect was called
    ret,           \* what scene_intersect returned
    color,         \* what cast_ray returned
    \* ---- Vector3 operations -------------------------------------------
    va,            \* a vector (self)
    vb,            \* a second vector (the operand)
    vop,           \* the operation applied, "none" before
    vidx,          \* the index passed to index / index_mut
    vval,          \* the value assigned through index_mut
    vscalar,       \* an f64 result
    vvec,          \* a Vector3 result
    vpanic         \* the operation panicked

rayvars == <<orig, dir, spheres, entry, pc, i, spheres_dist, dist_i, isect,
             hit, n, material, pre, ret, color>>
vecvars == <<va, vb, vop, vidx, vval, vscalar, vvec, vpanic>>
vars == <<rayvars, vecvars>>

---------------------------------------------------------------------------
\* Bounds of the model.

\* Longest scene.
MaxSpheres == 2
\* Components of the vectors of the Vector3 operations range over -MaxComp..MaxComp.
MaxComp == 1
\* Indices passed to index / index_mut range over 0..MaxIndex.
MaxIndex == 4

---------------------------------------------------------------------------
\* f64

\* std::f64::MAX, the largest finite value: larger than every value the
\* model's arithmetic produces.
F64_MAX == 1000000000
F64_INF == F64_MAX + 1
F64_NAN == 0 - F64_MAX - 2

\* The quotient a / b rounded to the nearest grid value, ties to even, for b > 0.
RoundDiv(a, b) ==
    LET q == a \div b
        r == a % b
    IN  IF 2 * r < b THEN q
        ELSE IF 2 * r > b THEN q + 1
        ELSE IF q % 2 = 0 THEN q ELSE q + 1

\* f64 division.
F64Div(a, b) ==
    IF b = 0
    THEN IF a = 0 THEN F64_NAN ELSE IF a > 0 THEN F64_INF ELSE 0 - F64_INF
    ELSE IF b > 0 THEN RoundDiv(a, b) ELSE RoundDiv(0 - a, 0 - b)

RECURSIVE FloorSqrt(_, _, _)
\* The largest s in lo..hi with s * s <= x (lo * lo <= x < (hi + 1) * (hi + 1)).
FloorSqrt(x, lo, hi) ==
    IF lo = hi THEN lo
    ELSE LET mid == (lo + hi + 1) \div 2
         IN  IF mid * mid <= x THEN FloorSqrt(x, mid, hi)
             ELSE FloorSqrt(x, lo, mid - 1)

\* f64::sqrt: NaN for a negative argument, else the root rounded to nearest.
F64Sqrt(x) ==
    IF x < 0 THEN F64_NAN
    ELSE LET s == FloorSqrt(x, 0, 46340)
         IN  IF x - s * s > s THEN s + 1 ELSE s

RECURSIVE powi(_, _)
\* f64::powi for an exponent k >= 0.
powi(x, k) == IF k = 0 THEN 1 ELSE x * powi(x, k - 1)

---------------------------------------------------------------------------
\* Vector3

Vector3_new(x, y, z) == [x |-> x, y |-> y, z |-> z]

new_zero == [x |-> 0, y |-> 0, z |-> 0]

crossWrongIndex(a, v) ==
    [x |-> a.y * v.z - a.z * v.x,
     y |-> a.z * v.x - a.x * v.z,
     z |-> a.x * v.y - a.y * v.x]

cross(a, v) ==
    [x |-> a.y * v.z - a.z * v.y,
     y |-> a.z * v.x - a.x * v.z,
     z |-> a.x * v.y - a.y * v.x]

norm(a) == F64Sqrt(powi(a.x, 2) + powi(a.y, 2) + powi(a.z, 2))

normalize(a) ==
    LET nrm == norm(a)
    IN  [x |-> F64Div(a.x, nrm), y |-> F64Div(a.y, nrm), z |-> F64Div(a.z, nrm)]

\* Vector3 * Vector3: the dot product.
mul(a, v) == a.x * v.x + a.y * v.y + a.z * v.z

\* Vector3 * f64.
mul_f64(a, k) == [x |-> k * a.x, y |-> k * a.y, z |-> k * a.z]

\* f64 * Vector3.
f64_mul(k, v) == [x |-> k * v.x, y |-> k * v.y, z |-> k * v.z]

add(a, v) == [x |-> a.x + v.x, y |-> a.y + v.y, z |-> a.z + v.z]

sub(a, v) == [x |-> a.x - v.x, y |-> a.y - v.y, z |-> a.z - v.z]

neg(a) == [x |-> a.x * (0 - 1), y |-> a.y * (0 - 1), z |-> a.z * (0 - 1)]

indexSwapped(idx) ==
    CASE idx = 0 -> "x"
      [] idx = 1 -> "z"
      [] idx = 2 -> "y"
      [] OTHER   -> "panic"

\* The component an index addresses, "panic" for an index out of range.
index_field(idx) ==
    CASE idx = 0 -> "x"
      [] idx = 1 -> "y"
      [] idx = 2 -> "z"
      [] OTHER   -> "panic"

\* v[idx]: the value read, or a panic.
index(a, idx) ==
    LET f == index_field(idx)
    IN  IF f = "panic" THEN [panic |-> TRUE, value |-> 0]
        ELSE [panic |-> FALSE, value |-> a[f]]

\* v[idx] = c: the vector afterwards, or a panic that leaves it as it was.
index_mut(a, idx, c) ==
    LET f == index_field(idx)
    IN  IF f = "panic" THEN [panic |-> TRUE, vec |-> a]
        ELSE [panic |-> FALSE, vec |-> [a EXCEPT ![f] = c]]

---------------------------------------------------------------------------
\* Material, Sphere

Material_new(c) == [color |-> c]

Sphere_new(center, radius, mat) ==
    [center |-> center, radius |-> radius, material |-> mat]

---------------------------------------------------------------------------
\* Sphere::ray_intersect, scene_intersect, cast_ray

\* The far plane: the literal 1000.0 of scene_intersect.
FarPlane == 1000

\* The background colour of cast_ray, (0.2, 0.7, 0.8), in tenths.
background_color == Vector3_new(2, 7, 8)

radiusUnsquared(radius) == radius

\* r2, the radius squared.
radius_sq(radius) == powi(radius, 2)

missesOrTouches(d2, r2) == d2 >= r2

\* The first early return of ray_intersect: the line passes the sphere by.
misses(d2, r2) == d2 > r2

selectNonPositive(t0, t1) == IF t0 <= 0 THEN t1 ELSE t0

\* The entry distance t0, replaced by the exit distance t1 when it is negative.
select_t0(t0, t1) == IF t0 < 0 THEN t1 ELSE t0

\* Sphere::ray_intersect(&self, orig, dir, &mut t0): what it returns and what
\* it leaves in t0, which held t0_in at the call.
ray_intersect(s, o, d, t0_in) ==
    LET l   == sub(s.center, o)
        tca == mul(l, d)
        d2  == mul(l, l) - tca * tca
        r2  == radius_sq(s.radius)
    IN  IF misses(d2, r2) THEN [ret |-> FALSE, t0 |-> t0_in]
        ELSE LET thc == F64Sqrt(r2 - d2)
                 t0  == select_t0(tca - thc, tca + thc)
             IN  IF t0 < 0 THEN [ret |-> FALSE, t0 |-> t0]
                 ELSE [ret |-> TRUE, t0 |-> t0]

closerOrEqual(d_i, sd) == d_i <= sd

closerThanFarPlane(d_i, sd) == d_i < FarPlane

\* The second conjunct of the loop's condition.
closer(d_i, sd) == d_i < sd

scene_body_eager(acc, s, o, d) ==
    LET ri == ray_intersect(s, o, d, 0)
        h  == add(o, mul_f64(d, ri.t0))
    IN  IF ri.ret /\ closer(ri.t0, acc.spheres_dist)
        THEN [spheres_dist |-> ri.t0,
              hit          |-> h,
              n            |-> normalize(sub(h, s.center)),
              material     |-> s.material]
        ELSE [acc EXCEPT !.hit = h]

\* One iteration of the for loop of scene_intersect on sphere s: acc holds
\* spheres_dist and the three out-parameters, before and after.
scene_body(acc, s, o, d) ==
    LET ri == ray_intersect(s, o, d, 0)
    IN  IF ri.ret /\ closer(ri.t0, acc.spheres_dist)
        THEN LET h == add(o, mul_f64(d, ri.t0))
             IN  [spheres_dist |-> ri.t0,
                  hit          |-> h,
                  n            |-> normalize(sub(h, s.center)),
                  material     |-> s.material]
        ELSE acc

visibleInclusive(sd) == sd <= FarPlane

\* The value scene_intersect returns.
visible(sd) == sd < FarPlane

RECURSIVE scene_loop(_, _, _, _)
\* The for loop of scene_intersect over the spheres ss, from acc.
scene_loop(acc, ss, o, d) ==
    IF ss = << >> THEN acc
    ELSE scene_loop(scene_body(acc, Head(ss), o, d), Tail(ss), o, d)

\* scene_intersect(orig, dir, spheres, &mut hit, &mut n, &mut material): what
\* it returns and what it leaves in the out-parameters, which held h, nn, m.
scene_intersect(o, d, ss, h, nn, m) ==
    LET acc == scene_loop([spheres_dist |-> F64_MAX, hit |-> h, n |-> nn,
                           material |-> m], ss, o, d)
    IN  [ret |-> visible(acc.spheres_dist), hit |-> acc.hit, n |-> acc.n,
         material |-> acc.material]

castRayInverted(r, m) == IF r THEN background_color ELSE m.color

\* What cast_ray returns, from scene_intersect's result r and the material m.
cast_ray_result(r, m) == IF ~r THEN background_color ELSE m.color

\* cast_ray(orig, dir, spheres).
cast_ray(o, d, ss) ==
    LET si == scene_intersect(o, d, ss, new_zero, new_zero, Material_new(new_zero))
    IN  cast_ray_result(si.ret, si.material)

---------------------------------------------------------------------------
\* Inputs

ivory == Material_new(Vector3_new(4, 4, 3))
red_rubber == Material_new(Vector3_new(3, 1, 1))

\* The spheres scenes are built from.
SphereSet ==
    { Sphere_new(Vector3_new(0, 0, 0 - 5), 1, ivory),
      Sphere_new(Vector3_new(0, 0, 0 - 6), 2, red_rubber),
      Sphere_new(Vector3_new(0, 0, 0), 2, ivory),
      Sphere_new(Vector3_new(0, 0, 0 - 16), 2, ivory),
      Sphere_new(Vector3_new(0, 0, 0 - 1005), 5, red_rubber),
      Sphere_new(Vector3_new(0, 0, 0 - 1006), 5, ivory),
      Sphere_new(Vector3_new(0, 0, 0 - 3), 0 - 1, red_rubber),
      Sphere_new(Vector3_new(0, 0, 0 - 2), 0, ivory),
      Sphere_new(Vector3_new(1, 0, 0 - 5), 1, red_rubber),
      Sphere_new(Vector3_new(1, 0, 0 - 5), 2, ivory) }

\* The scenes: every sequence of at most MaxSpheres spheres.
Scenes == UNION { [1..k -> SphereSet] : k \in 0..MaxSpheres }

\* Ray origins.
Origins == { Vector3_new(0, 0, 0), Vector3_new(0, 0, 0 - 4) }

\* Ray directions: the unit vectors of the grid.
Directions ==
    { Vector3_new(1, 0, 0), Vector3_new(0 - 1, 0, 0),
      Vector3_new(0, 1, 0), Vector3_new(0, 0 - 1, 0),
      Vector3_new(0, 0, 1), Vector3_new(0, 0, 0 - 1) }

\* What a direct caller of scene_intersect may hold in the out-parameters.
Presets ==
    { [hit |-> new_zero, n |-> new_zero, material |-> Material_new(new_zero)],
      [hit |-> Vector3_new(1, 1, 1), n |-> Vector3_new(0, 1, 0),
       material |-> Material_new(Vector3_new(9, 9, 9))] }

Comps == (0 - MaxComp)..MaxComp
Vectors == [x : Comps, y : Comps, z : Comps]
Indices == 0..MaxIndex
\* Values assigned through index_mut.
Values == { 0 - 10, 5 }

---------------------------------------------------------------------------
\* cast_ray and scene_intersect, statement by statement

RayIdle ==
    /\ entry = "none" /\ pc = "idle" /\ i = 0
    /\ spheres_dist = 0 /\ dist_i = 0 /\ isect = FALSE
    /\ hit = new_zero /\ n = new_zero /\ material = Material_new(new_zero)
    /\ pre = [hit |-> new_zero, n |-> new_zero, material |-> Material_new(new_zero)]
    /\ ret = FALSE /\ color = new_zero

VecIdle ==
    /\ vop = "none" /\ vidx = 0 /\ vval = 0 /\ vscalar = 0
    /\ vvec = new_zero /\ vpanic = FALSE

Init ==
    /\ orig \in Origins
    /\ dir \in Directions
    /\ spheres \in Scenes
    /\ RayIdle
    /\ va = new_zero /\ vb = new_zero
    /\ VecIdle

\* scene_intersect is entered with the out-parameters holding p.
EnterScene(p) ==
    /\ hit' = p.hit /\ n' = p.n /\ material' = p.material
    /\ pre' = p
    /\ spheres_dist' = F64_MAX
    /\ i' = 1
    /\ pc' = "loop"
    /\ UNCHANGED <<orig, dir, spheres, dist_i, isect, ret, color>>

\* cast_ray: the three locals are zeroed and scene_intersect is called.
CastRayCall ==
    /\ pc = "idle"
    /\ entry' = "cast_ray"
    /\ EnterScene([hit |-> new_zero, n |-> new_zero,
                   material |-> Material_new(new_zero)])
    /\ UNCHANGED vecvars

\* scene_intersect called by another caller, its out-parameters holding p.
SceneIntersectCall ==
    /\ pc = "idle"
    /\ entry' = "scene_intersect"
    /\ \E p \in Presets : EnterScene(p)
    /\ UNCHANGED vecvars

\* One iteration of the for loop.
SceneLoop ==
    /\ pc = "loop"
    /\ i <= Len(spheres)
    /\ LET ri  == ray_intersect(spheres[i], orig, dir, 0)
           acc == scene_body([spheres_dist |-> spheres_dist, hit |-> hit,
                              n |-> n, material |-> material],
                             spheres[i], orig, dir)
       IN  /\ dist_i' = ri.t0
           /\ isect' = ri.ret
           /\ spheres_dist' = acc.spheres_dist
           /\ hit' = acc.hit
           /\ n' = acc.n
           /\ material' = acc.material
    /\ i' = i + 1
    /\ UNCHANGED <<orig, dir, spheres, entry, pc, pre, ret, color>>
    /\ UNCHANGED vecvars

\* The loop is over: scene_intersect returns.
SceneReturn ==
    /\ pc = "loop"
    /\ i > Len(spheres)
    /\ ret' = visible(spheres_dist)
    /\ pc' = IF entry = "cast_ray" THEN "cast" ELSE "done"
    /\ UNCHANGED <<orig, dir, spheres, entry, i, spheres_dist, dist_i, isect,
                   hit, n, material, pre, color>>
    /\ UNCHANGED vecvars

\* cast_ray returns the background colour or the material's colour.
CastRayReturn ==
    /\ pc = "cast"
    /\ color' = cast_ray_result(ret, material)
    /\ pc' = "done"
    /\ UNCHANGED <<orig, dir, spheres, entry, i, spheres_dist, dist_i, isect,
                   hit, n, material, pre, ret>>
    /\ UNCHANGED vecvars

Next ==
    \/ CastRayCall
    \/ SceneIntersectCall
    \/ SceneLoop
    \/ SceneReturn
    \/ CastRayReturn

Spec == Init /\ [][Next]_vars

---------------------------------------------------------------------------
\* The Vector3 operations, each applied once to va (and vb)

InitVec ==
    /\ va \in Vectors
    /\ vb \in Vectors
    /\ VecIdle
    /\ orig = new_zero /\ dir = Vector3_new(0, 0, 0 - 1) /\ spheres = << >>
    /\ RayIdle

\* va * vb
VMul ==
    /\ vop = "none"
    /\ vop' = "mul"
    /\ vscalar' = mul(va, vb)
    /\ UNCHANGED <<va, vb, vidx, vval, vvec, vpanic>>
    /\ UNCHANGED rayvars

\* va.cross(&vb)
VCross ==
    /\ vop = "none"
    /\ vop' = "cross"
    /\ vvec' = cross(va, vb)
    /\ UNCHANGED <<va, vb, vidx, vval, vscalar, vpanic>>
    /\ UNCHANGED rayvars

\* va[idx]
VIndex ==
    /\ vop = "none"
    /\ \E idx \in Indices :
        LET r == index(va, idx)
        IN  /\ vidx' = idx
            /\ vpanic' = r.panic
            /\ vscalar' = IF r.panic THEN vscalar ELSE r.value
    /\ vop' = "index"
    /\ UNCHANGED <<va, vb, vval, vvec>>
    /\ UNCHANGED rayvars

\* va[idx] = c, and the vector afterwards kept in vvec
VIndexMut ==
    /\ vop = "none"
    /\ \E idx \in Indices, c \in Values :
        LET r == index_mut(va, idx, c)
        IN  /\ vidx' = idx
            /\ vval' = c
            /\ vpanic' = r.panic
            /\ vvec' = r.vec
    /\ vop' = "index_mut"
    /\ UNCHANGED <<va, vb, vscalar>>
    /\ UNCHANGED rayvars

NextVec ==
    \/ VMul
    \/ VCross
    \/ VIndex
    \/ VIndexMut

SpecVec == InitVec /\ [][NextVec]_vars

---------------------------------------------------------------------------
\* What the properties speak of

\* scene_intersect has returned.
Returned == pc \in {"cast", "done"}

\* cast_ray has returned.
CastDone == pc = "done" /\ entry = "cast_ray"

\* The loop has just processed a sphere, and which.
Iterated == pc = "loop" /\ i > 1
Last == spheres[i - 1]

\* The geometry of sphere s and the ray, as section 4.2 of the design names it.
Tca(s) == mul(sub(s.center, orig), dir)
D2(s) == mul(sub(s.center, orig), sub(s.center, orig)) - Tca(s) * Tca(s)
R2(s) == s.radius * s.radius
Thc(s) == F64Sqrt(R2(s) - D2(s))
T0(s) == Tca(s) - Thc(s)
T1(s) == Tca(s) + Thc(s)

\* Sphere k of the scene is intersected by the ray, and at which distance.
Hits(k) == ray_intersect(spheres[k], orig, dir, 0).ret
Dist(k) == ray_intersect(spheres[k], orig, dir, 0).t0

\* The spheres intersected among the first m of the scene.
HitSet(m) == { k \in 1..m : k <= Len(spheres) /\ Hits(k) }

\* The first of the spheres at the smallest distance among the first m.
Nearest(m) ==
    CHOOSE k \in HitSet(m) :
        \A j \in HitSet(m) : Dist(k) < Dist(j) \/ (Dist(k) = Dist(j) /\ k <= j)

\* The out-parameters as scene_intersect writes them for sphere k.
HitOf(k) == add(orig, mul_f64(dir, Dist(k)))
NormalOf(k) == normalize(sub(HitOf(k), spheres[k].center))

\* The scene in another order.
Reordered(f) == [k \in 1..Len(spheres) |-> spheres[f[k]]]

\* No two intersected spheres lie at the same distance.
DistinctDistances ==
    \A j, k \in HitSet(Len(spheres)) : j # k => Dist(j) # Dist(k)

---------------------------------------------------------------------------
\* C1: cast_ray returns the colour of the material scene_intersect selected,
\* unchanged, when scene_intersect reports a hit (and that is the colour of the
\* nearest intersected sphere of the scene), and the background colour
\* (0.2, 0.7, 0.8) when it reports a miss, as for the empty scene; it returns
\* no other colour.
C1_CastRayColor ==
    CastDone =>
        /\ ret => /\ color = material.color
                  /\ HitSet(Len(spheres)) # {}
                  /\ color = spheres[Nearest(Len(spheres))].material.color
        /\ ~ret => color = background_color
        /\ spheres = << >> => color = background_color
        /\ color = cast_ray(orig, dir, spheres)

\* cast_ray has returned the colour of the nearer of two intersected spheres
\* of different materials.
C1_Witness ==
    /\ CastDone /\ ret
    /\ Len(spheres) = 2 /\ Hits(1) /\ Hits(2)
    /\ spheres[1].material # spheres[2].material
    /\ color # background_color

\* C2: when the intersected spheres lie at pairwise distinct distances, every
\* order of the scene gives the same return value, hit point, normal and
\* material of scene_intersect, and the same colour of cast_ray.
C2_OrderIrrelevant ==
    (Returned /\ DistinctDistances) =>
        \A f \in Permutations(1..Len(spheres)) :
            /\ scene_intersect(orig, dir, Reordered(f), pre.hit, pre.n, pre.material)
                 = [ret |-> ret, hit |-> hit, n |-> n, material |-> material]
            /\ CastDone => cast_ray(orig, dir, Reordered(f)) = color

\* Two spheres of different materials are intersected at different distances,
\* the nearer one second in the list, and it won.
C2_Witness ==
    /\ CastDone /\ ret
    /\ Len(spheres) = 2 /\ Hits(1) /\ Hits(2)
    /\ Dist(2) < Dist(1)
    /\ spheres[1].material # spheres[2].material
    /\ material = spheres[2].material

\* C3: for a ray whose line reaches the sphere (d2 <= r2), ray_intersect
\* returns true with distance t0 = tca - thc when t0 >= 0, else true with
\* t1 = tca + thc when t1 >= 0, else false; a returned distance is never
\* negative, a distance of exactly 0 is a hit, and the two cases of the design
\* (origin at the centre of a sphere of radius 2: distance 2; sphere at
\* (0,0,-5) of radius 1 seen from the origin: distance 4) come out as stated.
C3_SelectsT0ThenT1 ==
    Iterated =>
        /\ D2(Last) <= R2(Last) =>
              /\ T0(Last) >= 0 => (isect /\ dist_i = T0(Last))
              /\ (T0(Last) < 0 /\ T1(Last) >= 0) => (isect /\ dist_i = T1(Last))
              /\ (T0(Last) < 0 /\ T1(Last) < 0) => ~isect
        /\ isect => dist_i >= 0
        /\ (orig = new_zero /\ dir = Vector3_new(0, 0, 0 - 1)) =>
              /\ (Last.center = new_zero /\ Last.radius = 2) =>
                    (isect /\ dist_i = 2)
              /\ (Last.center = Vector3_new(0, 0, 0 - 5) /\ Last.radius = 1) =>
                    (isect /\ dist_i = 4)

\* The origin lies inside the sphere just tested: the entry point is behind
\* it and the exit distance was returned.
C3_Witness ==
    /\ Iterated
    /\ D2(Last) <= R2(Last)
    /\ T0(Last) < 0 /\ T1(Last) > 0
    /\ isect /\ dist_i = T1(Last)

\* C4 as stated: a tangent ray (d2 = r2) is no hit.
C4_TangentIsMiss ==
    (Iterated /\ D2(Last) = R2(Last)) => ~isect

\* C4 as the code has it: a ray that misses the sphere (d2 > r2) is no hit
\* and leaves the distance as it was; a tangent ray (d2 = r2) is not a miss:
\* it is a hit at distance tca when the point of tangency is not behind the
\* origin (tca >= 0), and no hit only when tca < 0.
C4_OnlyMissIsRejected ==
    Iterated =>
        /\ D2(Last) > R2(Last) => (~isect /\ dist_i = 0)
        /\ D2(Last) = R2(Last) =>
              /\ isect <=> Tca(Last) >= 0
              /\ isect => dist_i = Tca(Last)

\* A ray tangent to a sphere of radius 1 was reported as a hit.
C4_Witness ==
    /\ Iterated
    /\ Last.radius = 1
    /\ D2(Last) = R2(Last)
    /\ isect /\ dist_i = Tca(Last)

\* C5: scene_intersect returns true exactly when some sphere of the scene is
\* intersected at a distance below the far plane, 1000; when the nearest
\* intersection lies at 1000 or beyond, cast_ray returns the background colour.
C5_FarPlane ==
    /\ Returned =>
          (ret <=> \E k \in HitSet(Len(spheres)) : Dist(k) < 1000)
    /\ (CastDone /\ \A k \in HitSet(Len(spheres)) : Dist(k) >= 1000) =>
          color = background_color

\* The only intersection lies at exactly 1000: a miss, and the background.
C5_Witness ==
    /\ CastDone
    /\ HitSet(Len(spheres)) # {}
    /\ \A k \in HitSet(Len(spheres)) : Dist(k) = 1000
    /\ ~ret /\ color = background_color

\* C6: indices 0, 1, 2 read and assign the components x, y, z, an assignment
\* followed by a read of the same index yields the value assigned, and an
\* index of 3 or more panics, yielding no value and writing nothing.
C6_IndexComponents ==
    /\ vop = "index" =>
          /\ vidx = 0 => (~vpanic /\ vscalar = va.x)
          /\ vidx = 1 => (~vpanic /\ vscalar = va.y)
          /\ vidx = 2 => (~vpanic /\ vscalar = va.z)
          /\ vidx >= 3 => (vpanic /\ vscalar = 0)
    /\ vop = "index_mut" =>
          /\ vidx = 0 => (~vpanic /\ vvec = [x |-> vval, y |-> va.y, z |-> va.z])
          /\ vidx = 1 => (~vpanic /\ vvec = [x |-> va.x, y |-> vval, z |-> va.z])
          /\ vidx = 2 => (~vpanic /\ vvec = [x |-> va.x, y |-> va.y, z |-> vval])
          /\ vidx < 3 => index(vvec, vidx) = [panic |-> FALSE, value |-> vval]
          /\ vidx >= 3 => (vpanic /\ vvec = va)

\* v[1] was assigned a value y did not hold, and holds it.
C6_Witness ==
    /\ vop = "index_mut" /\ vidx = 1 /\ ~vpanic
    /\ va.y # vval /\ vvec.y = vval

\* C7: the dot product is commutative, the cross product anti-commutative,
\* and the cross product of a vector with itself is the zero vector.
C7_DotCrossLaws ==
    /\ vop = "mul" => vscalar = mul(vb, va)
    /\ vop = "cross" =>
          /\ vvec = neg(cross(vb, va))
          /\ va = vb => vvec = new_zero

\* The cross product of two vectors, not zero.
C7_Witness ==
    /\ vop = "cross" /\ va # vb /\ vvec # new_zero

\* C8: scene_intersect holds the hit point, normal and material of the first
\* sphere, in the order of the list, among those at the smallest distance:
\* a later sphere at an equal distance never replaces an earlier one.
C8_FirstAtMinimumWins ==
    (pc \in {"loop", "cast", "done"} /\ HitSet(i - 1) # {}) =>
        LET k == Nearest(i - 1)
        IN  /\ spheres_dist = Dist(k)
            /\ hit = HitOf(k)
            /\ n = NormalOf(k)
            /\ material = spheres[k].material

\* Two spheres of different centres and materials are intersected at the same
\* distance, and the first one's material is reported.
C8_Witness ==
    /\ Returned /\ ret
    /\ Len(spheres) = 2 /\ Hits(1) /\ Hits(2)
    /\ Dist(1) = Dist(2)
    /\ spheres[1].center # spheres[2].center
    /\ spheres[1].material # spheres[2].material
    /\ material = spheres[1].material

\* C9 as stated: whenever scene_intersect returns false, hit, n and material
\* hold the values they had before the call.
C9_MissWritesNothing ==
    (Returned /\ ~ret) =>
        (hit = pre.hit /\ n = pre.n /\ material = pre.material)

\* C9 as the code has it: when scene_intersect returns false because no
\* sphere is intersected, hit, n and material hold the values they had before
\* the call; when it returns false because the nearest intersection lies at
\* 1000 or beyond, they hold the hit point, normal and material of that
\* nearest sphere.
C9_MissWritesOnlyFarHits ==
    (Returned /\ ~ret) =>
        IF HitSet(Len(spheres)) = {}
        THEN hit = pre.hit /\ n = pre.n /\ material = pre.material
        ELSE LET k == Nearest(Len(spheres))
             IN  /\ Dist(k) >= 1000
                 /\ hit = HitOf(k)
                 /\ n = NormalOf(k)
                 /\ material = spheres[k].material

\* scene_intersect went through a scene of two spheres, intersected none, and
\* returned false with the caller's values, not zero, still in place.
C9_Witness ==
    /\ Returned /\ ~ret
    /\ Len(spheres) = 2 /\ HitSet(2) = {}
    /\ pre.hit # new_zero /\ hit = pre.hit
    /\ n = pre.n /\ material = pre.material

====
